---- MODULE Spec2Model ----
(***************************************************************************)
(* Model of the query-enhancement and hybrid-retrieval-reranking pipeline  *)
(* of smartdrive_server.py: preprocess_query, generate_query_variations,   *)
(* rerank_results, _perform_search and the search_onedrive / fuzzy_read    *)
(* branches of call_tool.                                                  *)
(*                                                                         *)
(* Text is a sequence of one-character strings, so that the regular        *)
(* expressions of the source act on characters as re does.                 *)
(***************************************************************************)
EXTENDS Integers, Sequences, FiniteSets, TLC

(***************************************************************************)
(* Characters and the str / re primitives the source uses.                 *)
(***************************************************************************)
UpperChars ==
  <<"A", "B", "C", "D", "E", "F", "G", "H", "I", "J", "K", "L", "M", "N", "O", "P", "Q", "R", "S", "T", "U", "V", "W", "X", "Y", "Z">>

LowerChars ==
  <<"a", "b", "c", "d", "e", "f", "g", "h", "i", "j", "k", "l", "m", "n", "o", "p", "q", "r", "s", "t", "u", "v", "w", "x", "y", "z">>

DigitChars ==
  <<"0", "1", "2", "3", "4", "5", "6", "7", "8", "9">>

\* the characters str.split() and \s treat as whitespace
WhitespaceChars == {" ", "\t"}

SeqToSet(s) == {s[i] : i \in 1..Len(s)}

Min(a, b) == IF a <= b THEN a ELSE b

Max(a, b) == IF a >= b THEN a ELSE b

\* str.lower() on one character
LowerChar(c) ==
  IF \E i \in 1..Len(UpperChars) : UpperChars[i] = c
  THEN LowerChars[CHOOSE i \in 1..Len(UpperChars) : UpperChars[i] = c]
  ELSE c

\* str.lower()
Lower(s) == [i \in 1..Len(s) |-> LowerChar(s[i])]

\* [A-Za-z0-9]
IsAlnum(c) ==
  c \in SeqToSet(UpperChars) \cup SeqToSet(LowerChars) \cup SeqToSet(DigitChars)

\* \w
IsWordChar(c) == IsAlnum(c) \/ c = "_"

\* \s
IsSpace(c) == c \in WhitespaceChars

\* is the character at position p of s (none outside 1..Len(s)) a \w character
WordAt(s, p) == p >= 1 /\ p <= Len(s) /\ IsWordChar(s[p])

\* \b holds in front of position p of s (p in 1..Len(s)+1)
Boundary(s, p) == WordAt(s, p - 1) # WordAt(s, p)

\* the literal w matches s at position p; re.IGNORECASE when ic
MatchAt(s, p, w, ic) ==
  /\ p + Len(w) - 1 <= Len(s)
  /\ \A k \in 1..Len(w) :
       IF ic THEN LowerChar(s[p + k - 1]) = LowerChar(w[k])
             ELSE s[p + k - 1] = w[k]

\* kw in s
Contains(s, kw) == \E p \in 1..(Len(s) + 1) : MatchAt(s, p, kw, FALSE)

\* any(kw in s for kw in kws)
AnyIn(kws, s) == \E k \in 1..Len(kws) : Contains(s, kws[k])

\* first position >= p of s that holds no whitespace (Len(s)+1 when none)
RECURSIVE SkipSpace(_, _)
SkipSpace(s, p) ==
  IF p <= Len(s) /\ IsSpace(s[p]) THEN SkipSpace(s, p + 1) ELSE p

\* first position >= p of s that holds whitespace (Len(s)+1 when none)
RECURSIVE SkipNonSpace(_, _)
SkipNonSpace(s, p) ==
  IF p <= Len(s) /\ ~IsSpace(s[p]) THEN SkipNonSpace(s, p + 1) ELSE p

\* str.split(): the maximal whitespace-free runs of s from position p on
RECURSIVE SplitFrom(_, _)
SplitFrom(s, p) ==
  LET b == SkipSpace(s, p)
      e == SkipNonSpace(s, b)
  IN IF b > Len(s) THEN << >>
     ELSE <<SubSeq(s, b, e - 1)>> \o SplitFrom(s, e)

Split(s) == SplitFrom(s, 1)

\* ' '.join(words)
RECURSIVE JoinSpace(_)
JoinSpace(words) ==
  IF words = << >> THEN << >>
  ELSE IF Len(words) = 1 THEN words[1]
  ELSE words[1] \o <<" ">> \o JoinSpace(Tail(words))

\* last position <= p of s that holds no whitespace (0 when none)
RECURSIVE SkipSpaceBack(_, _)
SkipSpaceBack(s, p) ==
  IF p >= 1 /\ IsSpace(s[p]) THEN SkipSpaceBack(s, p - 1) ELSE p

\* str.strip()
Strip(s) == SubSeq(s, SkipSpace(s, 1), SkipSpaceBack(s, Len(s)))

\* re.sub(r'\b' + re.escape(w) + r'\b', '', s, flags=re.IGNORECASE), from
\* position p on: matches are found left to right and do not overlap
RECURSIVE SubWordFrom(_, _, _)
SubWordFrom(s, p, w) ==
  IF p > Len(s) THEN << >>
  ELSE IF /\ Boundary(s, p)
          /\ MatchAt(s, p, w, TRUE)
          /\ Boundary(s, p + Len(w))
       THEN SubWordFrom(s, p + Len(w), w)
       ELSE <<s[p]>> \o SubWordFrom(s, p + 1, w)

SubWord(s, w) == SubWordFrom(s, 1, w)

(***************************************************************************)
(* preprocess_query                                                        *)
(***************************************************************************)
tax_keywords ==
  << <<"t", "a", "x">>,
     <<"1", "0", "9", "9">>,
     <<"w", "-", "2">>,
     <<"w", "2">>,
     <<"w", "-", "9">>,
     <<"1", "0", "4", "0">>,
     <<"i", "r", "s">>,
     <<"f", "i", "s", "c", "a", "l">> >>

financial_keywords ==
  << <<"i", "n", "v", "o", "i", "c", "e">>,
     <<"r", "e", "c", "e", "i", "p", "t">>,
     <<"b", "i", "l", "l">>,
     <<"p", "a", "y", "m", "e", "n", "t">>,
     <<"b", "u", "d", "g", "e", "t">>,
     <<"e", "x", "p", "e", "n", "s", "e">> >>

meeting_keywords ==
  << <<"m", "e", "e", "t", "i", "n", "g">>,
     <<"n", "o", "t", "e", "s">>,
     <<"m", "i", "n", "u", "t", "e", "s">>,
     <<"a", "g", "e", "n", "d", "a">> >>

project_keywords ==
  << <<"p", "r", "o", "j", "e", "c", "t">>,
     <<"p", "r", "o", "p", "o", "s", "a", "l">>,
     <<"p", "l", "a", "n">>,
     <<"r", "o", "a", "d", "m", "a", "p">> >>

report_keywords ==
  << <<"r", "e", "p", "o", "r", "t">>,
     <<"a", "n", "a", "l", "y", "s", "i", "s">>,
     <<"s", "u", "m", "m", "a", "r", "y">>,
     <<"q", "u", "a", "r", "t", "e", "r", "l", "y">> >>

tax_expansion ==
  <<" ", "t", "a", "x", " ", "d", "o", "c", "u", "m", "e", "n", "t", " ", "I", "R", "S", " ", "f", "o", "r", "m", " ", "f", "i", "s", "c", "a", "l", " ", "y", "e", "a", "r">>

financial_expansion ==
  <<" ", "f", "i", "n", "a", "n", "c", "i", "a", "l", " ", "a", "c", "c", "o", "u", "n", "t", "i", "n", "g", " ", "e", "x", "p", "e", "n", "s", "e">>

meeting_expansion ==
  <<" ", "m", "e", "e", "t", "i", "n", "g", " ", "n", "o", "t", "e", "s", " ", "d", "i", "s", "c", "u", "s", "s", "i", "o", "n", " ", "a", "g", "e", "n", "d", "a">>

project_expansion ==
  <<" ", "p", "r", "o", "j", "e", "c", "t", " ", "p", "l", "a", "n", " ", "p", "r", "o", "p", "o", "s", "a", "l", " ", "s", "t", "r", "a", "t", "e", "g", "y">>

report_expansion ==
  <<" ", "r", "e", "p", "o", "r", "t", " ", "a", "n", "a", "l", "y", "s", "i", "s", " ", "s", "u", "m", "m", "a", "r", "y", " ", "d", "a", "t", "a">>

filler_words ==
  << <<"f", "i", "n", "d">>,
     <<"s", "e", "a", "r", "c", "h">>,
     <<"s", "h", "o", "w", " ", "m", "e">>,
     <<"g", "i", "v", "e", " ", "m", "e">>,
     <<"g", "e", "t", " ", "m", "e">>,
     <<"l", "o", "o", "k", " ", "f", "o", "r">> >>

\* one expansion rule: every rule tests the lower-cased ORIGINAL query
Expand(q, query_lower, kws, phrase) ==
  IF AnyIn(kws, query_lower) THEN q \o phrase ELSE q

\* the for loop over filler_words, from filler k on
RECURSIVE StripFillers(_, _)
StripFillers(q, k) ==
  IF k > Len(filler_words) THEN q
  ELSE StripFillers(SubWord(q, filler_words[k]), k + 1)

\* preprocess_query without the clean-up of whitespace at its end
preprocess_query_NoCleanup(q) ==
  LET query_lower == Lower(q)
      q1 == Expand(q, query_lower, tax_keywords, tax_expansion)
      q2 == Expand(q1, query_lower, financial_keywords, financial_expansion)
      q3 == Expand(q2, query_lower, meeting_keywords, meeting_expansion)
      q4 == Expand(q3, query_lower, project_keywords, project_expansion)
      q5 == Expand(q4, query_lower, report_keywords, report_expansion)
  IN StripFillers(q5, 1)

preprocess_query(q) ==
  LET query_lower == Lower(q)
      q1 == Expand(q, query_lower, tax_keywords, tax_expansion)
      q2 == Expand(q1, query_lower, financial_keywords, financial_expansion)
      q3 == Expand(q2, query_lower, meeting_keywords, meeting_expansion)
      q4 == Expand(q3, query_lower, project_keywords, project_expansion)
      q5 == Expand(q4, query_lower, report_keywords, report_expansion)
  IN JoinSpace(Split(StripFillers(q5, 1)))

(***************************************************************************)
(* generate_query_variations                                               *)
(***************************************************************************)
variation_verbs ==
  << <<"f", "i", "n", "d">>,
     <<"s", "e", "a", "r", "c", "h">>,
     <<"s", "h", "o", "w">>,
     <<"g", "i", "v", "e">>,
     <<"g", "e", "t">>,
     <<"l", "o", "o", "k">> >>

variation_objects ==
  << <<"m", "e">>,
     <<"f", "o", "r">> >>

stopwords ==
  { <<"t", "h", "e">>,
    <<"a">>,
    <<"a", "n">>,
    <<"a", "n", "d">>,
    <<"o", "r">>,
    <<"b", "u", "t">>,
    <<"i", "n">>,
    <<"o", "n">>,
    <<"a", "t">>,
    <<"t", "o">>,
    <<"f", "o", "r">>,
    <<"o", "f">>,
    <<"w", "i", "t", "h">>,
    <<"b", "y">>,
    <<"f", "r", "o", "m">>,
    <<"f", "i", "n", "d">>,
    <<"s", "e", "a", "r", "c", "h">>,
    <<"s", "h", "o", "w">>,
    <<"m", "e">>,
    <<"m", "y">> }

\* end (exclusive) of the alternative of alts that matches s at p, ignoring
\* case; 0 when none does.  No alternative is a prefix of another, so the
\* first that matches is the only one.
AltEnd(s, p, alts) ==
  IF \E k \in 1..Len(alts) : MatchAt(s, p, alts[k], TRUE)
  THEN p + Len(alts[CHOOSE k \in 1..Len(alts) : MatchAt(s, p, alts[k], TRUE)])
  ELSE 0

\* end (exclusive) of the match of
\*   \b(find|search|show|give|get|look)\s+(me|for)?\s*
\* at position p of s; 0 when it does not match there.  Every part after \s+
\* is optional, so the greedy attempt never backtracks.
CleanMatchEnd(s, p) ==
  LET v == AltEnd(s, p, variation_verbs)
  IN IF ~Boundary(s, p) \/ v = 0 THEN 0
     ELSE LET w == SkipSpace(s, v)
          IN IF w = v THEN 0
             ELSE LET o == AltEnd(s, w, variation_objects)
                  IN SkipSpace(s, IF o = 0 THEN w ELSE o)

\* re.sub of that pattern by '', from position p on
RECURSIVE SubCleanFrom(_, _)
SubCleanFrom(s, p) ==
  IF p > Len(s) THEN << >>
  ELSE LET e == CleanMatchEnd(s, p)
       IN IF e # 0 THEN SubCleanFrom(s, e)
          ELSE <<s[p]>> \o SubCleanFrom(s, p + 1)

\* first position >= p of s that holds no [A-Za-z0-9] character
RECURSIVE SkipAlnum(_, _)
SkipAlnum(s, p) ==
  IF p <= Len(s) /\ IsAlnum(s[p]) THEN SkipAlnum(s, p + 1) ELSE p

\* re.findall(r'\b[A-Za-z0-9]+\b', s), from position p on: a maximal run of
\* [A-Za-z0-9] is a match when \b holds at both its ends; inside a run \b
\* never holds, so a run that fails is skipped whole
RECURSIVE FindWordsFrom(_, _)
FindWordsFrom(s, p) ==
  IF p > Len(s) THEN << >>
  ELSE IF ~IsAlnum(s[p]) THEN FindWordsFrom(s, p + 1)
  ELSE LET e == SkipAlnum(s, p)
       IN IF Boundary(s, p) /\ Boundary(s, e)
          THEN <<SubSeq(s, p, e - 1)>> \o FindWordsFrom(s, e)
          ELSE FindWordsFrom(s, e)

\* [kw for kw in keywords if kw.lower() not in stopwords]
RECURSIVE DropStopwords(_)
DropStopwords(kws) ==
  IF kws = << >> THEN << >>
  ELSE IF Lower(Head(kws)) \in stopwords THEN DropStopwords(Tail(kws))
  ELSE <<Head(kws)>> \o DropStopwords(Tail(kws))

\* the candidates appended to `variations` before deduplication
VariationCandidates(q) ==
  LET cleaned == Strip(SubCleanFrom(q, 1))
      important_keywords == DropStopwords(FindWordsFrom(q, 1))
  IN <<q>>
     \o (IF cleaned # << >> /\ cleaned # q THEN <<cleaned>> ELSE << >>)
     \o (IF Len(important_keywords) >= 2
         THEN <<JoinSpace(important_keywords)>> ELSE << >>)

\* Deduplicate without the test `v_clean not in seen`
RECURSIVE Deduplicate_NoSeen(_, _, _)
Deduplicate_NoSeen(variations, k, unique) ==
  IF k > Len(variations) THEN unique
  ELSE LET v_clean == Strip(variations[k])
       IN IF v_clean # << >>
          THEN Deduplicate_NoSeen(variations, k + 1, Append(unique, v_clean))
          ELSE Deduplicate_NoSeen(variations, k + 1, unique)

\* the deduplication loop: unique_variations after the candidates from k on
\* have been visited (seen is the set of the members of unique)
RECURSIVE Deduplicate(_, _, _)
Deduplicate(variations, k, unique) ==
  IF k > Len(variations) THEN unique
  ELSE LET v_clean == Strip(variations[k])
       IN IF v_clean # << >> /\ v_clean \notin SeqToSet(unique)
          THEN Deduplicate(variations, k + 1, Append(unique, v_clean))
          ELSE Deduplicate(variations, k + 1, unique)

generate_query_variations(q) == Deduplicate(VariationCandidates(q), 1, << >>)

(***************************************************************************)
(* rerank_results                                                          *)
(*                                                                         *)
(* Scores are exact rationals: a retrieval score is kept in hundredths     *)
(* (score 0.95 is 95), a cross-encoder logit is an integer, and a blended  *)
(* score is kept in two-hundredths, so that                                *)
(*   (score + (rerank_score + 10) / 20) / 2  =  Blend(score, rerank) / 200 *)
(* A text is kept by its length, and a document id is a positive number.   *)
(***************************************************************************)
\* None, where a tool name or a response is expected
NoValue == "None"

\* meta.get('doc_id') of a match whose metadata holds no doc_id
NoDocId == 0

\* document_storage.retrieve_document(doc_id) found nothing
NoText == 0 - 1

\* (doc_info['score'] + (rerank_score + 10) / 20) / 2, in two-hundredths
Blend(score, rerank_score) == score + 5 * (rerank_score + 10)

\* InsertSorted that puts x in front of the elements with an equal
\* blended_score, as a sort that is not stable may
RECURSIVE InsertSorted_Unstable(_, _)
InsertSorted_Unstable(sorted, x) ==
  IF sorted = << >> THEN <<x>>
  ELSE IF Head(sorted).blended_score > x.blended_score
       THEN <<Head(sorted)>> \o InsertSorted_Unstable(Tail(sorted), x)
       ELSE <<x>> \o sorted

\* list.insert of x behind every element whose blended_score is >= x's:
\* where a stable descending sort puts x into the sorted prefix
RECURSIVE InsertSorted(_, _)
InsertSorted(sorted, x) ==
  IF sorted = << >> THEN <<x>>
  ELSE IF Head(sorted).blended_score >= x.blended_score
       THEN <<Head(sorted)>> \o InsertSorted(Tail(sorted), x)
       ELSE <<x>> \o sorted

\* reranked.sort(key=blended_score, reverse=True): stable, descending
RECURSIVE SortByBlended(_, _, _)
SortByBlended(items, k, sorted) ==
  IF k > Len(items) THEN sorted
  ELSE SortByBlended(items, k + 1, InsertSorted(sorted, items[k]))

\* text_snippet = full_text[:1000]
SnippetLen(full_text) == Min(full_text, 1000)

\* the pairs handed to reranker.predict, one per pool entry in pool order
RerankPairs(doc_results) ==
  [k \in 1..Len(doc_results) |-> SnippetLen(doc_results[k].full_text)]

\* rerank_results, given what reranker.predict returned for the pairs
rerank_results(doc_results, rerank_scores) ==
  IF doc_results = << >> THEN << >>
  ELSE LET n == Min(Len(doc_results), Len(rerank_scores))
           reranked ==
             [k \in 1..n |->
                [doc_id |-> doc_results[k].doc_id,
                 file_name |-> doc_results[k].file_name,
                 file_path |-> doc_results[k].file_path,
                 modified |-> doc_results[k].modified,
                 score |-> doc_results[k].score,
                 full_text |-> doc_results[k].full_text,
                 source_query |-> doc_results[k].source_query,
                 original_score |-> doc_results[k].score,
                 rerank_score |-> rerank_scores[k],
                 blended_score |->
                   Blend(doc_results[k].score, rerank_scores[k])]]
       IN SortByBlended(reranked, 1, << >>)

\* s[:k] of Python, for any integer k
Slice(s, k) ==
  IF k >= 0 THEN SubSeq(s, 1, Min(k, Len(s)))
  ELSE SubSeq(s, 1, Max(Len(s) + k, 0))

(***************************************************************************)
(* Lengths of the formatted output of call_tool                            *)
(***************************************************************************)
MAX_PREVIEW_CHARS == 2000

MAX_TOTAL_SIZE == 900000

\* number of decimal digits of n >= 0
RECURSIVE DecLen(_)
DecLen(n) == IF n < 10 THEN 1 ELSE 1 + DecLen(n \div 10)

Abs(n) == IF n < 0 THEN 0 - n ELSE n

\* len(f"{n:,}") for n >= 0
CommaLen(n) == DecLen(n) + ((DecLen(n) - 1) \div 3)

\* len(f"{x:.3f}") for x = num / den, where 1000 * num / den is an integer
Fixed3Len(num, den) ==
  (IF num < 0 THEN 1 ELSE 0) + DecLen(Abs(num) \div den) + 4

\* len(f"{r:.2f}") for an integer r
Fixed2Len(r) == (IF r < 0 THEN 1 ELSE 0) + DecLen(Abs(r)) + 3

\* len of the two header lines of search_onedrive
HeaderLen(n_results, original_query) ==
  27 + DecLen(n_results) + Len(original_query) + 33

\* len(preview_text)
PreviewLen(doc_id_len, text_length) ==
  IF text_length > MAX_PREVIEW_CHARS
  THEN MAX_PREVIEW_CHARS + 82
       + CommaLen(text_length - MAX_PREVIEW_CHARS) + doc_id_len
  ELSE text_length

\* how much of full_text the preview shows
PreviewTextLen(text_length) == Min(text_length, MAX_PREVIEW_CHARS)

\* len(result_block) of result i
ResultBlockLen(i, doc_id_len, doc_info) ==
  33 + DecLen(i) + Fixed3Len(doc_info.blended_score, 200)
     + 20 + Fixed3Len(doc_info.original_score, 100)
          + Fixed2Len(doc_info.rerank_score)
  + 56 + doc_id_len
  + 16 + doc_info.file_name
  + 15 + doc_info.file_path
  + 20 + doc_info.modified
  + 27 + CommaLen(doc_info.full_text)
  + 19 + PreviewLen(doc_id_len, doc_info.full_text)
  + 5

\* len of the "Remaining results omitted" line
OmittedNoticeLen == 67

\* len of the fuzzy_read output
FuzzyOutputLen(doc_id_len, doc_info) ==
  27 + doc_info.file_name
  + 15 + doc_info.file_path
  + 21 + Fixed3Len(doc_info.blended_score, 200)
  + 15 + doc_id_len
  + 19 + doc_info.full_text

(***************************************************************************)
(* The collaborators: what the vector index, the blob store, the embedding *)
(* provider and the cross-encoder may answer.                              *)
(***************************************************************************)
\* the documents of the corpus are 1..NumDocs
NumDocs == 22

Docs == 1..NumDocs

\* documents whose blob fetch may return None or '' as well as the text
FlakyDocs == {2}

\* len(doc_id), e.g. 'doc_abc123def456'
DocIdLen(doc_id) == 16 + 0 * doc_id

\* what the index holds as metadata of a document (lengths of the strings)
\* and the length of its text in the blob store; document 1 has a path so
\* long that its result block alone nearly fills MAX_TOTAL_SIZE
Corpus(d) ==
  [file_name |-> 10,
   file_path |-> IF d = 1 THEN 899130 ELSE 20,
   modified |-> 10,
   text |-> IF d = 3 THEN 2500 ELSE 500]

\* the match for document d at rank k of a response: scores fall by rank
Match(d, k) ==
  [doc_id |-> d,
   score |-> 100 - 5 * k,
   file_name |-> Corpus(d).file_name,
   file_path |-> Corpus(d).file_path,
   modified |-> Corpus(d).modified]

\* a match whose metadata has no doc_id
MatchWithoutId(k) ==
  [doc_id |-> NoDocId,
   score |-> 100 - 5 * k,
   file_name |-> 7,
   file_path |-> 7,
   modified |-> 7]

\* the matches for n consecutive documents from lo on
Page(lo, n) ==
  [k \in 1..Min(n, NumDocs - lo + 1) |-> Match(lo + k - 1, k)]

\* results.matches the index may return for top_k = fetch_count: never more
\* than fetch_count matches, and none for a fetch_count below 1
IndexResponses(fetch_count) ==
  {Page(lo, n) : lo \in {1, 3},
                 n \in {m \in {0, 1, 2, fetch_count} :
                          m >= 0 /\ m <= Max(fetch_count, 0)}}
  \cup (IF fetch_count >= 2 THEN {<<MatchWithoutId(1), Match(2, 2)>>} ELSE {})

\* what document_storage.retrieve_document(doc_id) may return
BlobOutcomes(doc_id) ==
  IF doc_id \in FlakyDocs THEN {NoText, 0, Corpus(doc_id).text}
  ELSE {Corpus(doc_id).text}

\* the logits the cross-encoder may give
LogitValues == {-1, 1}

\* the pairs from this position on all get the logit of this position
MaxScored == 2

\* what reranker.predict may return for n pairs: one logit per pair
PredictOutcomes(n) ==
  {[k \in 1..n |-> f[Min(k, MaxScored)]] : f \in [1..MaxScored -> LogitValues]}

\* the values of the top_k argument of a call, when it is given; the schema
\* of fuzzy_read declares no top_k, a caller may pass one all the same
TopKArgs(nm) == IF nm = "search_onedrive" THEN {-1, 0, 1, 21} ELSE {21}

\* the arguments of a call of tool nm for query q: top_k is optional
Arguments(nm, q) ==
  {[query |-> q]} \cup {[query |-> q, top_k |-> k] : k \in TopKArgs(nm)}

\* the queries of the requests: "find" (rewritten to ''), "w2" (one
\* variation), "get a pen" (three variations)
Queries ==
  { <<"f", "i", "n", "d">>,
    <<"w", "2">>,
    <<"g", "e", "t", " ", "a", " ", "p", "e", "n">> }

\* the inputs of the text functions: up to MaxPieces pieces, concatenated
MaxPieces == 3

Pieces ==
  << <<"f", "i", "n", "d">>,
     <<"S", "h", "o", "w", " ">>,
     <<"m", "e">>,
     <<"f", "o", "r", " ">>,
     <<" ">>,
     <<"-">>,
     <<"t", "a", "x", " ">>,
     <<"t", "h", "e", " ">>,
     <<"a", "t">> >>

RECURSIVE Compose(_)
Compose(n) ==
  IF n = 0 THEN {<< >>}
  ELSE LET shorter == Compose(n - 1)
       IN shorter \cup {s \o Pieces[k] : s \in shorter, k \in 1..Len(Pieces)}

TextInputs == Compose(MaxPieces)

(***************************************************************************)
(* State of one request                                                    *)
(***************************************************************************)
VARIABLES
  pc,                \* where the request is
  name,              \* call_tool: the tool called
  arguments,         \* call_tool: the arguments of the call
  query,             \* arguments["query"]
  top_k,             \* _perform_search: its top_k parameter
  enhanced_query,    \* _perform_search: preprocess_query(original_query)
  query_variations,  \* _perform_search: the variations
  queries_attempted, \* _perform_search: number of the variant being searched
  sparse_vector,     \* whether query_params holds "sparse_vector"
  matches,           \* results.matches of the current variant
  match_idx,         \* position of the for loop in matches
  all_doc_results,   \* the pool, in insertion (dict iteration) order
  calls,             \* the collaborator calls issued so far
  reranked,          \* _perform_search: what rerank_results returned
  reranked_results,  \* call_tool: what _perform_search returned
  i,                 \* call_tool: the enumerate counter of the output loop
  current_size,      \* call_tool: current_size
  output_len,        \* len(output)
  emitted,           \* the result blocks appended to output
  omitted,           \* number of "Remaining results omitted" lines in output
  response           \* what call_tool returned

vars ==
  <<pc, name, arguments, query, top_k, enhanced_query, query_variations,
    queries_attempted, sparse_vector, matches, match_idx, all_doc_results,
    calls, reranked, reranked_results, i, current_size, output_len, emitted, omitted,
    response>>

searchVars ==
  <<queries_attempted, sparse_vector, matches, match_idx, all_doc_results,
    calls, reranked, reranked_results>>

outputVars == <<i, current_size, output_len, emitted, omitted, response>>

\* calls: the variants for which get_embedding, get_sparse_embedding and
\* index.query were called, the variants whose embedding was None, for
\* every match visited <<variant, doc_id, what became of it>>, and the
\* number of calls of reranker.predict
NoCalls ==
  [embed |-> {}, embed_none |-> {}, sparse |-> {}, index |-> {},
   matches |-> {}, rerank |-> 0]

Fresh ==
  /\ name = NoValue
  /\ arguments = [query |-> << >>]
  /\ top_k = 0
  /\ enhanced_query = << >>
  /\ query_variations = << >>
  /\ queries_attempted = 0
  /\ sparse_vector = FALSE
  /\ matches = << >>
  /\ match_idx = 0
  /\ all_doc_results = << >>
  /\ calls = NoCalls
  /\ reranked = << >>
  /\ reranked_results = << >>
  /\ i = 0
  /\ current_size = 0
  /\ output_len = 0
  /\ emitted = << >>
  /\ omitted = 0
  /\ response = NoValue

Init ==
  /\ pc = "idle"
  /\ query = << >>
  /\ Fresh

\* the document ids in the pool
PoolIds(pool) == {pool[k].doc_id : k \in 1..Len(pool)}

\* fetch_count = min(top_k * 4, 20)
FetchCount(k) == Min(k * 4, 20)

\* LoopHead over query_variations[:2]
LoopHead_FirstTwo(n, variations) ==
  IF n < Len(Slice(variations, 2))
  THEN /\ pc' = "embed"
       /\ queries_attempted' = n + 1
  ELSE /\ pc' = "retrieved"
       /\ queries_attempted' = n

\* the head of `for query_variant in query_variations[:3]` after n
\* iterations: the next variant is entered, or the loop is left
LoopHead(n, variations) ==
  IF n < Len(Slice(variations, 3))
  THEN /\ pc' = "embed"
       /\ queries_attempted' = n + 1
  ELSE /\ pc' = "retrieved"
       /\ queries_attempted' = n

\* the variant being searched
QueryVariant == query_variations[queries_attempted]

(***************************************************************************)
(* call_tool and _perform_search                                           *)
(***************************************************************************)
\* SearchTopK that hands the top_k argument on for fuzzy_read too
SearchTopK_FromArguments(nm, args) ==
  IF "top_k" \in DOMAIN args THEN args.top_k
  ELSE IF nm = "search_onedrive" THEN 5 ELSE 1

\* the top_k that call_tool hands to _perform_search
SearchTopK(nm, args) ==
  IF nm = "search_onedrive"
  THEN (IF "top_k" \in DOMAIN args THEN args.top_k ELSE 5)
  ELSE 1

\* call_tool up to the first await of _perform_search
CallTool ==
  /\ pc = "idle"
  /\ \E nm \in {"search_onedrive", "fuzzy_read"}, q \in Queries :
     \E args \in Arguments(nm, q) :
       /\ name' = nm
       /\ arguments' = args
       /\ query' = args.query
       /\ top_k' = SearchTopK(nm, args)
       /\ enhanced_query' = preprocess_query(q)
       /\ query_variations' = generate_query_variations(preprocess_query(q))
       /\ all_doc_results' = << >>
       /\ LoopHead(0, generate_query_variations(preprocess_query(q)))
  /\ UNCHANGED <<sparse_vector, matches, match_idx, calls, reranked,
                 reranked_results>>
  /\ UNCHANGED outputVars

\* GetEmbedding without the `continue`: a variant without embedding goes on
\* to the sparse embedding and the index query
GetEmbedding_NoContinue ==
  /\ pc = "embed"
  /\ \E failed \in BOOLEAN :
       calls' = IF failed
                THEN [calls EXCEPT
                        !.embed = @ \cup {queries_attempted},
                        !.embed_none = @ \cup {queries_attempted}]
                ELSE [calls EXCEPT !.embed = @ \cup {queries_attempted}]
  /\ pc' = "sparse"
  /\ UNCHANGED <<name, arguments, query, top_k, enhanced_query,
                 query_variations, queries_attempted, sparse_vector, matches,
                 match_idx, all_doc_results, reranked, reranked_results>>
  /\ UNCHANGED outputVars

\* embedding_provider.get_embedding(query_variant) and the test for None
GetEmbedding ==
  /\ pc = "embed"
  /\ \E failed \in BOOLEAN :
       IF failed
       THEN /\ calls' = [calls EXCEPT
                           !.embed = @ \cup {queries_attempted},
                           !.embed_none = @ \cup {queries_attempted}]
            /\ LoopHead(queries_attempted, query_variations)
       ELSE /\ calls' = [calls EXCEPT !.embed = @ \cup {queries_attempted}]
            /\ pc' = "sparse"
            /\ UNCHANGED queries_attempted
  /\ UNCHANGED <<name, arguments, query, top_k, enhanced_query,
                 query_variations, sparse_vector, matches, match_idx,
                 all_doc_results, reranked, reranked_results>>
  /\ UNCHANGED outputVars

\* embedding_provider.get_sparse_embedding(query_variant) and the building
\* of query_params
GetSparseEmbedding ==
  /\ pc = "sparse"
  /\ \E sparse_query_embedding \in {NoValue, "no values", "values"} :
       sparse_vector' = (sparse_query_embedding = "values")
  /\ calls' = [calls EXCEPT !.sparse = @ \cup {queries_attempted}]
  /\ pc' = "query"
  /\ UNCHANGED <<name, arguments, query, top_k, enhanced_query,
                 query_variations, queries_attempted, matches, match_idx,
                 all_doc_results, reranked, reranked_results>>
  /\ UNCHANGED outputVars

\* index.query(**query_params) returns its matches
IndexQuery ==
  /\ pc = "query"
  /\ \E results \in IndexResponses(FetchCount(top_k)) :
       /\ matches' = results
       /\ IF results = << >>
          THEN /\ match_idx' = 0
               /\ LoopHead(queries_attempted, query_variations)
          ELSE /\ match_idx' = 1
               /\ pc' = "collect"
               /\ UNCHANGED queries_attempted
  /\ calls' = [calls EXCEPT !.index = @ \cup {queries_attempted}]
  /\ sparse_vector' = FALSE
  /\ UNCHANGED <<name, arguments, query, top_k, enhanced_query,
                 query_variations, all_doc_results, reranked,
                 reranked_results>>
  /\ UNCHANGED outputVars

\* index.query(**query_params) raises: nothing catches it, so it leaves
\* _perform_search and call_tool
IndexQueryRaises ==
  /\ pc = "query"
  /\ calls' = [calls EXCEPT !.index = @ \cup {queries_attempted}]
  /\ pc' = "raised"
  /\ response' = "error"
  /\ UNCHANGED <<name, arguments, query, top_k, enhanced_query,
                 query_variations, queries_attempted, sparse_vector, matches,
                 match_idx, all_doc_results, reranked, reranked_results>>
  /\ UNCHANGED <<i, current_size, output_len, emitted, omitted>>

\* the pool entry made of a match and its text
Candidate(match, full_text, query_variant) ==
  [doc_id |-> match.doc_id,
   file_name |-> match.file_name,
   file_path |-> match.file_path,
   modified |-> match.modified,
   score |-> match.score,
   full_text |-> full_text,
   source_query |-> query_variant]

\* Truthy as `if full_text is not None`: the empty text passes
Truthy_NotNone(full_text) == full_text # NoText

\* `if full_text:`
Truthy(full_text) == full_text # NoText /\ full_text # 0

\* ShouldFetch without the test for a document already pooled
ShouldFetch_NotSeenBefore(pool, doc_id) == doc_id # NoDocId

\* `if doc_id and doc_id not in all_doc_results`
ShouldFetch(pool, doc_id) == doc_id # NoDocId /\ doc_id \notin PoolIds(pool)

\* one iteration of `for match in results.matches`
CollectMatch ==
  /\ pc = "collect"
  /\ LET match == matches[match_idx]
         doc_id == match.doc_id
     IN IF ShouldFetch(all_doc_results, doc_id)
        THEN \E full_text \in BlobOutcomes(doc_id) :
               /\ calls' = [calls EXCEPT
                              !.matches = @ \cup
                                {<<queries_attempted, doc_id,
                                   IF Truthy(full_text) THEN "text"
                                   ELSE "no text">>}]
               /\ all_doc_results' =
                    IF Truthy(full_text)
                    THEN Append(all_doc_results,
                                Candidate(match, full_text, QueryVariant))
                    ELSE all_doc_results
        ELSE /\ calls' = [calls EXCEPT
                            !.matches = @ \cup
                              {<<queries_attempted, doc_id, "not fetched">>}]
             /\ UNCHANGED all_doc_results
  /\ IF match_idx < Len(matches)
     THEN /\ match_idx' = match_idx + 1
          /\ UNCHANGED <<pc, queries_attempted, matches>>
     ELSE /\ match_idx' = 0
          /\ matches' = << >>
          /\ LoopHead(queries_attempted, query_variations)
  /\ UNCHANGED <<name, arguments, query, top_k, enhanced_query,
                 query_variations, sparse_vector, reranked,
                 reranked_results>>
  /\ UNCHANGED outputVars

\* Rank without the tests for an empty pool: reranker.predict is called
\* with no pairs
Rank_RerankEmptyPool ==
  /\ pc = "retrieved"
  /\ \E rerank_scores \in
          PredictOutcomes(Len(RerankPairs(all_doc_results))) :
       /\ reranked' = rerank_results(all_doc_results, rerank_scores)
       /\ reranked_results' =
            Slice(rerank_results(all_doc_results, rerank_scores), top_k)
       /\ calls' = [calls EXCEPT !.rerank = @ + 1]
  /\ pc' = "ranked"
  /\ UNCHANGED <<name, arguments, query, top_k, enhanced_query,
                 query_variations, queries_attempted, sparse_vector, matches,
                 match_idx, all_doc_results>>
  /\ UNCHANGED outputVars

\* the end of _perform_search: the empty-pool return, or rerank_results and
\* the cut to top_k
Rank ==
  /\ pc = "retrieved"
  /\ IF all_doc_results = << >>
     THEN /\ reranked_results' = << >>
          /\ UNCHANGED <<calls, reranked>>
     ELSE \E rerank_scores \in
               PredictOutcomes(Len(RerankPairs(all_doc_results))) :
            /\ reranked' = rerank_results(all_doc_results, rerank_scores)
            /\ reranked_results' =
                 Slice(rerank_results(all_doc_results, rerank_scores), top_k)
            /\ calls' = [calls EXCEPT !.rerank = @ + 1]
  /\ pc' = "ranked"
  /\ UNCHANGED <<name, arguments, query, top_k, enhanced_query,
                 query_variations, queries_attempted, sparse_vector, matches,
                 match_idx, all_doc_results>>
  /\ UNCHANGED outputVars

\* search_onedrive: `if not reranked_results`
SearchNoMatch ==
  /\ pc = "ranked"
  /\ name = "search_onedrive"
  /\ reranked_results = << >>
  /\ response' = "no_match"
  /\ output_len' = 40 + Len(query) + 10 + 27 + 22 + 57
  /\ pc' = "done"
  /\ UNCHANGED <<name, arguments, query, top_k, enhanced_query,
                 query_variations>>
  /\ UNCHANGED searchVars
  /\ UNCHANGED <<i, current_size, emitted, omitted>>

\* search_onedrive: the header and current_size = len(output)
SearchHeader ==
  /\ pc = "ranked"
  /\ name = "search_onedrive"
  /\ reranked_results # << >>
  /\ output_len' = HeaderLen(Len(reranked_results), query)
  /\ current_size' = HeaderLen(Len(reranked_results), query)
  /\ i' = 0
  /\ pc' = "format"
  /\ UNCHANGED <<name, arguments, query, top_k, enhanced_query,
                 query_variations>>
  /\ UNCHANGED searchVars
  /\ UNCHANGED <<emitted, omitted, response>>

\* FormatResult with `continue` in the place of `break`: a block that does
\* not fit is skipped and the loop goes on to the next result
FormatResult_SkipsOversized ==
  /\ pc = "format"
  /\ i < Len(reranked_results)
  /\ LET doc_info == reranked_results[i + 1]
         result_block ==
           ResultBlockLen(i + 1, DocIdLen(doc_info.doc_id), doc_info)
     IN IF current_size + result_block > MAX_TOTAL_SIZE
        THEN /\ output_len' = output_len + OmittedNoticeLen
             /\ omitted' = omitted + 1
             /\ i' = i + 1
             /\ UNCHANGED <<pc, current_size, emitted, response>>
        ELSE /\ output_len' = output_len + result_block
             /\ current_size' = current_size + result_block
             /\ emitted' = Append(emitted,
                                  [doc_id |-> doc_info.doc_id,
                                   shown |-> PreviewTextLen(doc_info.full_text),
                                   block |-> result_block])
             /\ i' = i + 1
             /\ UNCHANGED <<pc, omitted, response>>
  /\ UNCHANGED <<name, arguments, query, top_k, enhanced_query,
                 query_variations>>
  /\ UNCHANGED searchVars

\* search_onedrive: one iteration of the output loop
FormatResult ==
  /\ pc = "format"
  /\ i < Len(reranked_results)
  /\ LET doc_info == reranked_results[i + 1]
         result_block ==
           ResultBlockLen(i + 1, DocIdLen(doc_info.doc_id), doc_info)
     IN IF current_size + result_block > MAX_TOTAL_SIZE
        THEN /\ output_len' = output_len + OmittedNoticeLen
             /\ omitted' = omitted + 1
             /\ response' = "results"
             /\ pc' = "done"
             /\ UNCHANGED <<i, current_size, emitted>>
        ELSE /\ output_len' = output_len + result_block
             /\ current_size' = current_size + result_block
             /\ emitted' = Append(emitted,
                                  [doc_id |-> doc_info.doc_id,
                                   shown |-> PreviewTextLen(doc_info.full_text),
                                   block |-> result_block])
             /\ i' = i + 1
             /\ UNCHANGED <<pc, omitted, response>>
  /\ UNCHANGED <<name, arguments, query, top_k, enhanced_query,
                 query_variations>>
  /\ UNCHANGED searchVars

\* search_onedrive: the output loop is exhausted and output is returned
SearchReturn ==
  /\ pc = "format"
  /\ i >= Len(reranked_results)
  /\ response' = "results"
  /\ pc' = "done"
  /\ UNCHANGED <<name, arguments, query, top_k, enhanced_query,
                 query_variations>>
  /\ UNCHANGED searchVars
  /\ UNCHANGED <<i, current_size, output_len, emitted, omitted>>

\* fuzzy_read: `if not reranked_results`
FuzzyNoMatch ==
  /\ pc = "ranked"
  /\ name = "fuzzy_read"
  /\ reranked_results = << >>
  /\ response' = "no_match"
  /\ output_len' = 38 + Len(query)
  /\ pc' = "done"
  /\ UNCHANGED <<name, arguments, query, top_k, enhanced_query,
                 query_variations>>
  /\ UNCHANGED searchVars
  /\ UNCHANGED <<i, current_size, emitted, omitted>>

\* fuzzy_read: the full text of reranked_results[0]
FuzzyRead ==
  /\ pc = "ranked"
  /\ name = "fuzzy_read"
  /\ reranked_results # << >>
  /\ LET doc_info == reranked_results[1]
     IN /\ output_len' = FuzzyOutputLen(DocIdLen(doc_info.doc_id), doc_info)
        /\ emitted' = <<[doc_id |-> doc_info.doc_id,
                         shown |-> doc_info.full_text,
                         block |-> FuzzyOutputLen(DocIdLen(doc_info.doc_id),
                                                  doc_info)]>>
  /\ response' = "full_text"
  /\ pc' = "done"
  /\ UNCHANGED <<name, arguments, query, top_k, enhanced_query,
                 query_variations>>
  /\ UNCHANGED searchVars
  /\ UNCHANGED <<i, current_size, omitted>>

Next ==
  \/ CallTool
  \/ GetEmbedding
  \/ GetSparseEmbedding
  \/ IndexQuery
  \/ IndexQueryRaises
  \/ CollectMatch
  \/ Rank
  \/ SearchNoMatch
  \/ SearchHeader
  \/ FormatResult
  \/ SearchReturn
  \/ FuzzyNoMatch
  \/ FuzzyRead

Spec == Init /\ [][Next]_vars

(***************************************************************************)
(* The text functions on their own: the input is any text of TextInputs    *)
(***************************************************************************)
InitText ==
  /\ pc = "text"
  /\ query \in TextInputs
  /\ Fresh

\* enhanced = preprocess_query(original_query)
TextRewrite ==
  /\ pc = "text"
  /\ enhanced_query' = preprocess_query(query)
  /\ pc' = "rewritten"
  /\ UNCHANGED <<name, arguments, query, top_k, query_variations>>
  /\ UNCHANGED searchVars
  /\ UNCHANGED outputVars

\* variations = generate_query_variations(enhanced)
TextVariations ==
  /\ pc = "rewritten"
  /\ query_variations' = generate_query_variations(enhanced_query)
  /\ pc' = "varied"
  /\ UNCHANGED <<name, arguments, query, top_k, enhanced_query>>
  /\ UNCHANGED searchVars
  /\ UNCHANGED outputVars

\* generate_query_variations applied to the input as it is
TextVariationsOf ==
  /\ pc = "text"
  /\ query_variations' = generate_query_variations(query)
  /\ pc' = "varied_input"
  /\ UNCHANGED <<name, arguments, query, top_k, enhanced_query>>
  /\ UNCHANGED searchVars
  /\ UNCHANGED outputVars

NextText ==
  \/ TextRewrite
  \/ TextVariations
  \/ TextVariationsOf

SpecText == InitText /\ [][NextText]_vars

(***************************************************************************)
(* Properties                                                              *)
(***************************************************************************)
\* the input the variations in query_variations were generated from
VariationInput == IF pc = "varied" THEN enhanced_query ELSE query

\* the candidates as the deduplication loop compares them
Stripped(candidates) ==
  [k \in 1..Len(candidates) |-> Strip(candidates[k])]

\* the position of the first of the candidates that is equal to v
FirstCandidate(candidates, v) ==
  CHOOSE k \in 1..Len(candidates) :
    /\ candidates[k] = v
    /\ \A j \in 1..(k - 1) : candidates[j] # v

\* C4 as stated: for every rewritten query r that preprocess_query produces,
\* the empty one included, generate_query_variations(r) has at least one
\* element and its element 0 is r.
C4_FirstVariationIsRewritten ==
  pc = "varied" =>
    /\ Len(query_variations) >= 1
    /\ query_variations[1] = enhanced_query

\* C4 as amended: for every non-empty rewritten query r that
\* preprocess_query produces, generate_query_variations(r) has at least one
\* element and its element 0 is r; for the empty r it is the empty sequence.
C4_FirstVariationIsRewrittenUnlessEmpty ==
  pc = "varied" =>
    IF enhanced_query = << >>
    THEN query_variations = << >>
    ELSE /\ Len(query_variations) >= 1
         /\ query_variations[1] = enhanced_query

\* a query that rewriting changed and that has more than one variation
C4_Witness ==
  /\ pc = "varied"
  /\ enhanced_query # << >>
  /\ enhanced_query # query
  /\ Len(query_variations) >= 2
  /\ query_variations[1] = enhanced_query

\* C5: for every input, the result of generate_query_variations holds no
\* empty string and no string twice, and holds the (stripped) candidates
\* input, filler-stripped, keyword-focused in the order of their first
\* occurrence.
C5_VariationsDistinctNonEmptyInOrder ==
  pc \in {"varied", "varied_input"} =>
    LET candidates == Stripped(VariationCandidates(VariationInput))
    IN /\ \A k \in 1..Len(query_variations) : query_variations[k] # << >>
       /\ \A j, k \in 1..Len(query_variations) :
            j # k => query_variations[j] # query_variations[k]
       /\ SeqToSet(query_variations) = SeqToSet(candidates) \ {<< >>}
       /\ \A j, k \in 1..Len(query_variations) :
            j < k => FirstCandidate(candidates, query_variations[j])
                       < FirstCandidate(candidates, query_variations[k])

\* an input with three candidates of which two are equal once stripped
C5_Witness ==
  /\ pc \in {"varied", "varied_input"}
  /\ Len(VariationCandidates(VariationInput)) = 3
  /\ Len(query_variations) = 2
  /\ query_variations[1] = VariationInput
  /\ << >> \notin SeqToSet(Stripped(VariationCandidates(VariationInput)))

\* the variants (by number) in which document d was among the matches
SurfacedIn(d) == {m[1] : m \in {c \in calls.matches : c[2] = d}}

\* the variants (by number) in which the text of document d was fetched
TextFetchedIn(d) ==
  {m[1] : m \in {c \in calls.matches : c[2] = d /\ c[3] = "text"}}

\* the least number of a non-empty set of numbers
Least(S) == CHOOSE v \in S : \A w \in S : v <= w

\* the pool holds at most one entry per document id
PoolUnique ==
  \A j, k \in 1..Len(all_doc_results) :
    j # k => all_doc_results[j].doc_id # all_doc_results[k].doc_id

\* C1 as stated: the pool holds at most one Candidate per document id, and
\* the source_query of an entry is the earliest variation that surfaced its
\* document, whatever the blob store returned.
C1_SourceIsEarliestSurfacing ==
  /\ PoolUnique
  /\ \A k \in 1..Len(all_doc_results) :
       all_doc_results[k].source_query =
         query_variations[Least(SurfacedIn(all_doc_results[k].doc_id))]

\* C1 as amended: the pool holds at most one Candidate per document id, an
\* entry once inserted is never changed or removed, and the source_query of
\* an entry is the earliest variation that surfaced its document and got
\* its text from the blob store: the variations that surfaced it earlier
\* got no text for it, those that surfaced it later did not fetch it.
C1_FirstSeenWins ==
  /\ [](/\ PoolUnique
        /\ \A k \in 1..Len(all_doc_results) :
             LET d == all_doc_results[k].doc_id
             IN /\ Cardinality(TextFetchedIn(d)) = 1
                /\ \A v \in TextFetchedIn(d) :
                     /\ all_doc_results[k].source_query = query_variations[v]
                     /\ \A c \in calls.matches :
                          c[2] = d =>
                            /\ c[1] < v => c[3] = "no text"
                            /\ c[1] > v => c[3] = "not fetched")
  /\ [][/\ Len(all_doc_results') >= Len(all_doc_results)
        /\ \A k \in 1..Len(all_doc_results) :
             all_doc_results'[k] = all_doc_results[k]]_vars

\* a document pooled from one variation and surfaced again by a later one
C1_Witness ==
  /\ pc = "retrieved"
  /\ \E k \in 1..Len(all_doc_results) :
       LET d == all_doc_results[k].doc_id
       IN \E v \in TextFetchedIn(d), w \in SurfacedIn(d) :
            /\ w > v
            /\ all_doc_results[k].source_query = query_variations[v]
            /\ query_variations[w] # query_variations[v]

\* C2: the text search_onedrive returns (header, result blocks and the
\* "Remaining results omitted" line) is never longer than MAX_TOTAL_SIZE.
C2_OutputWithinCeiling ==
  name = "search_onedrive" => output_len <= MAX_TOTAL_SIZE

\* the top_k a call of search_onedrive asks for
RequestedTopK ==
  IF "top_k" \in DOMAIN arguments THEN arguments.top_k ELSE 5

\* C3: whatever integer top_k search_onedrive is called with, the number of
\* results rendered is at most min(max(top_k, 1), 20), and at least 1 when
\* the pool is not empty.
C3_RenderedWithinClampedTopK ==
  name = "search_onedrive" =>
    /\ Len(emitted) <= Min(Max(RequestedTopK, 1), 20)
    /\ (pc = "done" /\ response = "results" /\ all_doc_results # << >>)
         => Len(emitted) >= 1

\* C6: when the retrieval loop ends with an empty pool, reranker.predict is
\* not called in the request, the ranked sequence is empty, and
\* search_onedrive returns the "No matching documents found" text with its
\* hint instead of an error.
C6_EmptyPoolIsNoMatch ==
  (pc \in {"ranked", "format", "done"} /\ all_doc_results = << >>) =>
    /\ calls.rerank = 0
    /\ reranked = << >>
    /\ reranked_results = << >>
    /\ pc # "format"
    /\ (pc = "done" /\ name = "search_onedrive") =>
         /\ response = "no_match"
         /\ output_len = 156 + Len(query)
         /\ emitted = << >>

\* a search whose matches were all discarded and that answered "no match"
C6_Witness ==
  /\ pc = "done"
  /\ name = "search_onedrive"
  /\ all_doc_results = << >>
  /\ calls.index # {}
  /\ calls.matches # {}
  /\ response = "no_match"

\* C7: a failing index query of one variation is skipped: the request never
\* ends with the failure, it goes on with the remaining variations.
C7_IndexFailureIsSkipped ==
  /\ response # "error"
  /\ pc # "raised"

\* C8: a variant whose dense embedding is None gets no sparse embedding, no
\* index query and no blob fetch; the step that finds the embedding missing
\* leaves the pool alone and enters the next of the first 3 variants, or
\* leaves the loop after the last of them, and never ends the request.
C8_FailedEmbeddingSkipsVariant ==
  /\ [](\A v \in calls.embed_none :
          /\ v \notin calls.sparse
          /\ v \notin calls.index
          /\ \A c \in calls.matches : c[1] # v)
  /\ [][calls'.embed_none # calls.embed_none =>
          /\ all_doc_results' = all_doc_results
          /\ calls'.sparse = calls.sparse
          /\ calls'.index = calls.index
          /\ calls'.matches = calls.matches
          /\ response' = response
          /\ IF queries_attempted < Len(Slice(query_variations, 3))
             THEN /\ pc' = "embed"
                  /\ queries_attempted' = queries_attempted + 1
             ELSE pc' = "retrieved"]_vars

\* a variant without embedding, after a variant that pooled a document and
\* before a variant that was searched
C8_Witness ==
  /\ all_doc_results # << >>
  /\ \E u, v, w \in 1..3 :
       /\ u < v
       /\ v < w
       /\ v \in calls.embed_none
       /\ u \in calls.index
       /\ w \in calls.index

\* the position of document d in the pool
PoolPosition(d) ==
  CHOOSE k \in 1..Len(all_doc_results) : all_doc_results[k].doc_id = d

\* C9: for a non-empty pool, rerank_results returns a permutation of the
\* pool in the order of non-increasing blended_score, where entries of equal
\* blended_score keep their pool order, and for top_k in 1..20
\* _perform_search returns its first min(top_k, pool size) elements.
C9_StableDescendingRanking ==
  (pc \in {"ranked", "format", "done"} /\ all_doc_results # << >>) =>
    /\ Len(reranked) = Len(all_doc_results)
    /\ {reranked[k].doc_id : k \in 1..Len(reranked)}
         = PoolIds(all_doc_results)
    /\ \A j, k \in 1..Len(reranked) :
         j # k => reranked[j].doc_id # reranked[k].doc_id
    /\ \A k \in 1..Len(reranked) :
         /\ reranked[k].score
              = all_doc_results[PoolPosition(reranked[k].doc_id)].score
         /\ 200 * reranked[k].blended_score
              = 100 * (2 * reranked[k].score
                       + 10 * (reranked[k].rerank_score + 10))
    /\ \A j, k \in 1..Len(reranked) :
         j < k =>
           /\ reranked[j].blended_score >= reranked[k].blended_score
           /\ reranked[j].blended_score = reranked[k].blended_score
                => PoolPosition(reranked[j].doc_id)
                     < PoolPosition(reranked[k].doc_id)
    /\ top_k \in 1..20 =>
         /\ Len(reranked_results) = Min(top_k, Len(all_doc_results))
         /\ \A k \in 1..Len(reranked_results) :
              reranked_results[k] = reranked[k]

\* a ranking that differs from the pool order, has two entries of equal
\* blended_score, and is cut to top_k
C9_Witness ==
  /\ pc = "ranked"
  /\ top_k \in 1..20
  /\ Len(reranked_results) < Len(reranked)
  /\ \E k \in 1..Len(reranked) :
       reranked[k].doc_id # all_doc_results[k].doc_id
  /\ \E j, k \in 1..Len(reranked) :
       /\ j < k
       /\ reranked[j].blended_score = reranked[k].blended_score

\* C10: fuzzy_read searches with top_k = 1 whatever its arguments hold, and
\* with a non-empty pool it returns the whole text of exactly one document,
\* the first of the ranking.
C10_FuzzyReadsBestMatchInFull ==
  name = "fuzzy_read" =>
    /\ top_k = 1
    /\ (pc = "done" /\ response # "error" /\ all_doc_results # << >>) =>
         /\ response = "full_text"
         /\ Len(reranked_results) = 1
         /\ Len(emitted) = 1
         /\ emitted[1].doc_id = reranked[1].doc_id
         /\ emitted[1].shown
              = all_doc_results[PoolPosition(reranked[1].doc_id)].full_text
         /\ omitted = 0

\* a fuzzy_read called with a top_k argument that returned, out of several
\* pooled documents, one whose text is longer than a preview
C10_Witness ==
  /\ name = "fuzzy_read"
  /\ "top_k" \in DOMAIN arguments
  /\ pc = "done"
  /\ response = "full_text"
  /\ Len(all_doc_results) >= 2
  /\ emitted[1].shown > MAX_PREVIEW_CHARS


\* the variants (by number) for which some collaborator was called
VariantsCalled(c) ==
  c.embed \cup c.sparse \cup c.index \cup {m[1] : m \in c.matches}

\* C11: a request searches the first 3 entries of the variation sequence and
\* no other, in the order of the sequence and one after another: every
\* collaborator call is for the variant being searched, no call is for a
\* variant before one already called, one call is made per step and at most
\* one embedding, one sparse embedding and one index query per variant, so
\* that a request makes at most 3 embedding calls and 3 index queries.
C11_FirstThreeVariantsOneAfterAnother ==
  /\ [](/\ queries_attempted <= Min(3, Len(query_variations))
        /\ calls.embed =
             1..(IF pc = "embed" THEN queries_attempted - 1
                 ELSE queries_attempted)
        /\ calls.sparse \subseteq calls.embed
        /\ calls.index \subseteq calls.sparse
        /\ {m[1] : m \in calls.matches} \subseteq calls.index
        /\ Cardinality(calls.embed) <= 3
        /\ Cardinality(calls.index) <= 3
        /\ pc \in {"retrieved", "ranked", "format", "done"} =>
             calls.embed = 1..Min(3, Len(query_variations)))
  /\ [][/\ queries_attempted' \in
             {queries_attempted, queries_attempted + 1}
        /\ calls.embed \subseteq calls'.embed
        /\ calls.sparse \subseteq calls'.sparse
        /\ calls.index \subseteq calls'.index
        /\ calls.matches \subseteq calls'.matches
        /\ Cardinality(calls'.embed \ calls.embed)
             + Cardinality(calls'.sparse \ calls.sparse)
             + Cardinality(calls'.index \ calls.index)
             + Cardinality(calls'.matches \ calls.matches) <= 1
        /\ pc = "embed" => calls'.embed # calls.embed
        /\ pc = "sparse" => calls'.sparse # calls.sparse
        /\ pc = "query" => calls'.index # calls.index
        /\ \A v \in VariantsCalled(calls') :
             \/ /\ v \in calls.embed <=> v \in calls'.embed
                /\ v \in calls.sparse <=> v \in calls'.sparse
                /\ v \in calls.index <=> v \in calls'.index
                /\ \A m \in calls'.matches \ calls.matches : m[1] # v
             \/ /\ v = queries_attempted
                /\ \A w \in VariantsCalled(calls) : w <= v]_vars

\* a request of three variations, each searched: the third got its matches
\* after the index answered the first and the second
C11_Witness ==
  /\ pc = "done"
  /\ Len(query_variations) = 3
  /\ calls.embed = {1, 2, 3}
  /\ calls.index = {1, 2, 3}
  /\ \A v \in 1..3 : \E m \in calls.matches : m[1] = v

\* the sum of the block lengths of the first n emitted result blocks
RECURSIVE EmittedLen(_)
EmittedLen(n) == IF n = 0 THEN 0 ELSE EmittedLen(n - 1) + emitted[n].block

\* len(result_block) of the ranked result k, were it formatted as result k
BlockOf(k) ==
  ResultBlockLen(k, DocIdLen(reranked_results[k].doc_id), reranked_results[k])

\* C12: in the output loop of search_onedrive the emitted blocks are the
\* complete blocks of a prefix of the ranked sequence, each appended while
\* the accumulated size stayed within MAX_TOTAL_SIZE; the loop ends either
\* with every ranked result emitted and no notice, or at the first result
\* whose block would exceed MAX_TOTAL_SIZE with exactly one "Remaining
\* results omitted" notice, after which nothing more is appended.
C12_StopsAtFirstOversizedBlock ==
  /\ [](name = "search_onedrive" =>
          /\ omitted <= 1
          /\ Len(emitted) <= Len(reranked_results)
          /\ \A k \in 1..Len(emitted) :
               /\ emitted[k].doc_id = reranked_results[k].doc_id
               /\ emitted[k].block = BlockOf(k)
          /\ pc \in {"format", "done"} /\ response # "no_match" =>
               /\ current_size =
                    HeaderLen(Len(reranked_results), query)
                      + EmittedLen(Len(emitted))
               /\ current_size <= MAX_TOTAL_SIZE
               /\ output_len = current_size + omitted * OmittedNoticeLen
          /\ omitted = 1 =>
               /\ pc = "done"
               /\ Len(emitted) < Len(reranked_results)
               /\ current_size + BlockOf(Len(emitted) + 1) > MAX_TOTAL_SIZE
          /\ pc = "done" /\ response = "results" /\ omitted = 0 =>
               Len(emitted) = Len(reranked_results))
  /\ [][omitted >= 1 =>
          /\ emitted' = emitted
          /\ omitted' = omitted
          /\ output_len' = output_len]_vars

\* the loop stopped at a block that did not fit, after a block it emitted
\* and before a ranked result whose block would have fitted
C12_Witness ==
  /\ name = "search_onedrive"
  /\ pc = "done"
  /\ omitted = 1
  /\ Len(emitted) >= 1
  /\ \E k \in (Len(emitted) + 2)..Len(reranked_results) :
       current_size + BlockOf(k) <= MAX_TOTAL_SIZE

\* C13: every pool entry has a document id and a non-empty full_text. In
\* the step that visits a match, a match without doc_id or for a document
\* already pooled is passed over without a blob fetch, a match for a
\* document not yet pooled is fetched, a fetch that returns nothing leaves
\* the pool as it was, and a fetch that returns text appends one entry
\* for that document with that text.
C13_PoolEntriesHaveIdAndText ==
  /\ [](/\ \A k \in 1..Len(all_doc_results) :
             /\ all_doc_results[k].doc_id # NoDocId
             /\ all_doc_results[k].full_text # NoText
             /\ all_doc_results[k].full_text >= 1
        /\ \A m \in calls.matches : m[2] = NoDocId => m[3] = "not fetched"
        /\ \A d \in PoolIds(all_doc_results) :
             \E m \in calls.matches : m[2] = d /\ m[3] = "text")
  /\ [][pc = "collect" =>
          LET doc_id == matches[match_idx].doc_id
              known == doc_id \in PoolIds(all_doc_results)
          IN \E outcome \in {"not fetched", "no text", "text"} :
               /\ calls'.matches =
                    calls.matches
                      \cup {<<queries_attempted, doc_id, outcome>>}
               /\ outcome = "not fetched" <=> (doc_id = NoDocId \/ known)
               /\ outcome # "text" => all_doc_results' = all_doc_results
               /\ outcome = "text" =>
                    /\ Len(all_doc_results') = Len(all_doc_results) + 1
                    /\ SubSeq(all_doc_results', 1, Len(all_doc_results))
                         = all_doc_results
                    /\ all_doc_results'[Len(all_doc_results')].doc_id = doc_id
                    /\ all_doc_results'[Len(all_doc_results')].full_text
                         = Corpus(doc_id).text]_vars

\* a retrieval loop that met a match without doc_id, a document whose blob
\* fetch returned nothing, and a match for a document already pooled
C13_Witness ==
  /\ pc = "retrieved"
  /\ all_doc_results # << >>
  /\ \E m \in calls.matches : m[2] = NoDocId /\ m[3] = "not fetched"
  /\ \E m \in calls.matches : m[3] = "no text"
  /\ \E m \in calls.matches :
       /\ m[2] \in PoolIds(all_doc_results)
       /\ m[3] = "not fetched"
====
